---- MODULE Spec2Model ----
(***************************************************************************)
(* Model of credit.py: "Code Debugger Adventure", a text adventure whose   *)
(* whole logic is one command loop (Game.run) over a Player, an optional   *)
(* active Bug and a five-room map.                                         *)
(*                                                                         *)
(* Python values are modelled as follows.                                  *)
(*   - None is the record [none |-> TRUE].                                 *)
(*   - A str is [str |-> s], s a sequence of tokens.  The tokens are the   *)
(*     pieces the code's string operations can tell apart: "Feature",      *)
(*     ":", " ", "Bug" and one token per feature name.  The f-string       *)
(*     f"Feature: {n}", startswith("Feature:"), split(": ") and the        *)
(*     substring test "Bug" in content are computed on these sequences.    *)
(*   - A dict with fixed keys is a record; the exits dict is a function    *)
(*     from the direction letters it holds to room indices.                *)
(*   - print is modelled by appending a tag to out, the output of the      *)
(*     command being processed.                                            *)
(***************************************************************************)
EXTENDS Integers, Sequences, FiniteSets, TLC

VARIABLES
    player,        \* Game.player: the Player object's fields
    current_bug,   \* Game.current_bug: None or the Bug object's fields
    map_state,     \* Game.map_state: the per-game working copy of MAP
    is_running,    \* Game.is_running
    FEATURE_POOL,  \* Game.FEATURE_POOL: class attribute, popped by __init__
    template,      \* Game.MAP: class attribute, the rooms it holds now
    cmd,           \* the command and argument parsed from the last line read
    out            \* what the last command printed, as a sequence of tags

vars ==
    <<player, current_bug, map_state, is_running, FEATURE_POOL, template, cmd, out>>

-----------------------------------------------------------------------------
(* Python values *)

None == [none |-> TRUE]

Str(s) == [str |-> s]

\* truthiness of a value that is None or a str
Truthy(v) == v # None /\ v.str # <<>>

\* "needle in hay" for two str values
Contains(hay, needle) ==
    \E i \in 1..(Len(hay.str) - Len(needle.str) + 1) :
        SubSeq(hay.str, i, i + Len(needle.str) - 1) = needle.str

\* hay.startswith(prefix)
StartsWith(hay, prefix) ==
    /\ Len(hay.str) >= Len(prefix.str)
    /\ SubSeq(hay.str, 1, Len(prefix.str)) = prefix.str

RECURSIVE Split(_, _)
\* hay.split(sep): the list of the pieces of hay between occurrences of sep
Split(hay, sep) ==
    LET n    == Len(sep.str)
        hits == {i \in 1..(Len(hay.str) - n + 1) :
                    SubSeq(hay.str, i, i + n - 1) = sep.str}
    IN  IF hits = {} THEN <<hay>>
        ELSE LET i == CHOOSE h \in hits : \A k \in hits : h <= k
             IN  <<Str(SubSeq(hay.str, 1, i - 1))>>
                 \o Split(Str(SubSeq(hay.str, i + n, Len(hay.str))), sep)

Min(a, b) == IF a <= b THEN a ELSE b

\* list.index(x): the first position whose element equals x
Index(lst, x) ==
    CHOOSE i \in DOMAIN lst : lst[i] = x /\ \A j \in DOMAIN lst : j < i => lst[j] # x

-----------------------------------------------------------------------------
(* Literals of the program *)

BugMarker == Str(<<"Bug">>)

FeaturePrefix == Str(<<"Feature", ":">>)

ColonSpace == Str(<<":", " ">>)

\* f"Feature: {name}"
FormatFeature(name) == Str(<<"Feature", ":", " ">> \o name.str)

\* MAP with an exit of the Database Schema leading to a sixth room
MAP_stray_exit ==
    [i \in 0..4 |->
        [name |-> "Room",
         exits |-> IF i = 3 THEN [d \in {"S", "W", "N"} |->
                                     IF d = "S" THEN 2 ELSE IF d = "W" THEN 1 ELSE 5]
                   ELSE IF i = 4 THEN [d \in {} |-> 0]
                   ELSE [d \in {"N", "E"} |-> IF d = "N" THEN 1 ELSE 3],
         content |-> IF i \in {1, 3} THEN BugMarker ELSE None]]

\* Game.MAP, rooms indexed 0..4 as in the list
MAP ==
    [i \in 0..4 |->
        CASE i = 0 -> [name |-> "Main Repository",
                       exits |-> [d \in {"N", "E"} |-> IF d = "N" THEN 1 ELSE 2],
                       content |-> None]
          [] i = 1 -> [name |-> "Frontend Component",
                       exits |-> [d \in {"S", "E"} |-> IF d = "S" THEN 0 ELSE 3],
                       content |-> BugMarker]
          [] i = 2 -> [name |-> "Backend Service",
                       exits |-> [d \in {"W", "N"} |-> IF d = "W" THEN 0 ELSE 3],
                       content |-> FormatFeature(Str(<<"Authentication">>))]
          [] i = 3 -> [name |-> "Database Schema",
                       exits |-> [d \in {"S", "W"} |-> IF d = "S" THEN 2 ELSE 1],
                       content |-> BugMarker]
          [] i = 4 -> [name |-> "CI/CD Pipeline",
                       exits |-> [d \in {} |-> 0],
                       content |-> FormatFeature(Str(<<"Automated Testing">>))]]

\* Game.FEATURE_POOL as the class body defines it
FEATURE_POOL_0 ==
    << Str(<<"User Profiles">>), Str(<<"API Caching">>),
       Str(<<"Real-time Notifications">>), Str(<<"Data Migration Script">>),
       Str(<<"Linter Configuration">>) >>

total_features_to_win == 5

-----------------------------------------------------------------------------
(* Entity, Player, Bug *)

\* Entity.is_alive
is_alive(e) == e.health > 0

\* Entity.take_damage: the entity after the damage, and what is printed
take_damage(e, damage) ==
    LET h == e.health - damage
    IN  [entity |-> [e EXCEPT !.health = h],
         out    |-> IF h <= 0 THEN <<"TAKES_DAMAGE", "ELIMINATED">>
                              ELSE <<"TAKES_DAMAGE">>]

\* Player.__init__
NewPlayer ==
    [name |-> "The Developer", max_health |-> 100, health |-> 100, attack |-> 15,
     inventory |-> <<>>, current_location |-> 0, features_collected |-> 0]

\* add_feature with the heal not capped at max_health
add_feature_uncapped(p, feature_name) ==
    [p EXCEPT !.inventory = Append(@, feature_name),
              !.features_collected = @ + 1,
              !.max_health = @ + 5,
              !.health = @ + 10]

\* add_feature healing before max_health is raised
add_feature_heal_first(p, feature_name) ==
    [p EXCEPT !.inventory = Append(@, feature_name),
              !.features_collected = @ + 1,
              !.max_health = @ + 5,
              !.health = Min(p.max_health, p.health + 10)]

\* add_feature forgetting the counter
add_feature_uncounted(p, feature_name) ==
    LET mh == p.max_health + 5
    IN  [p EXCEPT !.inventory = Append(@, feature_name),
                  !.max_health = mh,
                  !.health = Min(mh, p.health + 10)]

\* Player.add_feature
add_feature(p, feature_name) ==
    LET mh == p.max_health + 5
    IN  [p EXCEPT !.inventory = Append(@, feature_name),
                  !.features_collected = @ + 1,
                  !.max_health = mh,
                  !.health = Min(mh, p.health + 10)]

\* Bug.__init__ with attack 5 + level * 15
NewBug_fierce(level) ==
    [max_health |-> 20 + level * 10, health |-> 20 + level * 10,
     attack |-> 5 + level * 15, level |-> level]

\* Bug.__init__.  The name random.choice draws is only ever printed and is
\* left out of the record.
NewBug(level) ==
    [max_health |-> 20 + level * 10, health |-> 20 + level * 10,
     attack |-> 5 + level * 5, level |-> level]

\* the difficulty formula without the room's share
bug_level_no_room(p) == 1 + (p.features_collected \div 2)

\* the difficulty formula of _look and _start_combat
bug_level(p) == 1 + (p.features_collected \div 2) + (p.current_location \div 2)

-----------------------------------------------------------------------------
(* Game handlers.  Each takes the game g = [player, current_bug, map_state,  *)
(* is_running, out] and the dice rolls it may use, and returns the game      *)
(* after the call.                                                           *)

Game == [player |-> player, current_bug |-> current_bug, map_state |-> map_state,
         is_running |-> is_running, out |-> <<>>]

Say(g, tags) == [g EXCEPT !.out = @ \o tags]

\* "not self.current_bug or not self.current_bug.is_alive()"
NoLiveBug(g) == g.current_bug = None \/ ~is_alive(g.current_bug)

\* _look making a new bug whenever the room holds the bug marker
look_respawns(g) ==
    LET content == g.map_state[g.player.current_location].content
        g1      == Say(g, <<"LOCATION">>)
    IN  IF Truthy(content)
        THEN IF Contains(content, BugMarker)
             THEN Say([g1 EXCEPT !.current_bug = NewBug(bug_level(g1.player))],
                      <<"BUG_ALERT", "WARNING_BUG">>)
             ELSE IF StartsWith(content, FeaturePrefix)
                  THEN Say(g1, <<"FOUND_FEATURE">>)
                  ELSE Say(g1, <<"UNKNOWN_ARTIFACT">>)
        ELSE Say(g1, <<"MODULE_CLEAN">>)

\* Game._look
look(g) ==
    LET loc      == g.player.current_location
        location == g.map_state[loc]
        content  == location.content
        g1       == Say(g, <<"LOCATION">>)
    IN  IF Truthy(content)
        THEN IF Contains(content, BugMarker)
             THEN LET g2 == IF (NoLiveBug(g1) \/ loc # Index(g1.map_state, location))
                               /\ NoLiveBug(g1)
                            THEN Say([g1 EXCEPT !.current_bug =
                                          NewBug(bug_level(g1.player))],
                                     <<"BUG_ALERT">>)
                            ELSE g1
                  IN  Say(g2, <<"WARNING_BUG">>)
             ELSE IF StartsWith(content, FeaturePrefix)
                  THEN Say(g1, <<"FOUND_FEATURE">>)
                  ELSE Say(g1, <<"UNKNOWN_ARTIFACT">>)
        ELSE Say(g1, <<"MODULE_CLEAN">>)

\* Game._move; direction is the argument as run passes it
Upper(t) ==
    CASE t = "n" -> "N" [] t = "e" -> "E" [] t = "s" -> "S" [] t = "w" -> "W"
      [] OTHER -> t

\* _move taking one point of health for every step into another room
move_tiring(g, direction) ==
    LET dir      == Upper(direction)
        loc      == g.player.current_location
        location == g.map_state[loc]
    IN  IF g.current_bug # None /\ is_alive(g.current_bug)
           /\ Index(g.map_state, location) = loc
        THEN Say(g, <<"BLOCKED">>)
        ELSE IF dir \in DOMAIN location.exits
             THEN look([g EXCEPT !.player.current_location = location.exits[dir],
                                 !.player.health = @ - 1])
             ELSE Say(g, <<"INVALID_MOVE">>)

\* _move without the live-bug check
move_unblocked(g, direction) ==
    LET dir      == Upper(direction)
        location == g.map_state[g.player.current_location]
    IN  IF dir \in DOMAIN location.exits
        THEN look([g EXCEPT !.player.current_location = location.exits[dir]])
        ELSE Say(g, <<"INVALID_MOVE">>)

move(g, direction) ==
    LET dir      == Upper(direction)
        loc      == g.player.current_location
        location == g.map_state[loc]
    IN  IF g.current_bug # None /\ is_alive(g.current_bug)
           /\ Index(g.map_state, location) = loc
        THEN Say(g, <<"BLOCKED">>)
        ELSE IF dir \in DOMAIN location.exits
             THEN look([g EXCEPT !.player.current_location = location.exits[dir]])
             ELSE Say(g, <<"INVALID_MOVE">>)

\* _start_combat without the check of the room's content
start_combat_unchecked(g) ==
    IF NoLiveBug(g)
    THEN Say([g EXCEPT !.current_bug = NewBug(bug_level(g.player))],
             <<"BUG_ALERT", "COMBAT_INITIATED">>)
    ELSE g

\* Game._start_combat
start_combat(g) ==
    LET loc      == g.player.current_location
        location == g.map_state[loc]
        content  == location.content
    IN  IF ~Truthy(content) \/ ~Contains(content, BugMarker)
        THEN Say(g, <<"NO_BUG_HERE">>)
        ELSE IF NoLiveBug(g) \/ Index(g.map_state, location) # loc
             THEN Say([g EXCEPT !.current_bug = NewBug(bug_level(g.player))],
                      <<"BUG_ALERT", "COMBAT_INITIATED">>)
             ELSE g

\* the range random.randint(a, b) draws from
randint(a, b) == a..b

\* the exchange with the loss branch not clearing is_running
exchange_no_loss(g, player_damage, bug_damage) ==
    LET hit == take_damage(g.current_bug, player_damage)
        bug == hit.entity
        g1  == Say([g EXCEPT !.current_bug = bug], <<"PLAYER_HIT">> \o hit.out)
    IN  IF ~is_alive(bug)
        THEN LET loc == g1.player.current_location
                 g2  == [g1 EXCEPT
                           !.map_state[loc].content = None,
                           !.current_bug = None,
                           !.player.health =
                               Min(g1.player.max_health, g1.player.health + 5)]
             IN  look(Say(g2, <<"SUCCESS">>))
        ELSE LET back == take_damage(g1.player, bug_damage)
                 g2   == Say([g1 EXCEPT !.player = back.entity],
                             <<"BUG_HIT">> \o back.out)
             IN  IF ~is_alive(g2.player)
                 THEN Say(g2, <<"GAME_OVER">>)
                 ELSE g2

\* the exchange ending the game when the bug, not the player, is down
exchange_stop_on_kill(g, player_damage, bug_damage) ==
    LET hit == take_damage(g.current_bug, player_damage)
        bug == hit.entity
        g1  == Say([g EXCEPT !.current_bug = bug], <<"PLAYER_HIT">> \o hit.out)
    IN  IF ~is_alive(bug)
        THEN LET loc == g1.player.current_location
                 g2  == [g1 EXCEPT
                           !.map_state[loc].content = None,
                           !.current_bug = None,
                           !.is_running = FALSE,
                           !.player.health =
                               Min(g1.player.max_health, g1.player.health + 5)]
             IN  look(Say(g2, <<"SUCCESS">>))
        ELSE LET back == take_damage(g1.player, bug_damage)
                 g2   == Say([g1 EXCEPT !.player = back.entity],
                             <<"BUG_HIT">> \o back.out)
             IN  IF ~is_alive(g2.player)
                 THEN Say([g2 EXCEPT !.is_running = FALSE], <<"GAME_OVER">>)
                 ELSE g2

\* the exchange leaving the bug marker in the room of the squashed bug
exchange_keeps_marker(g, player_damage, bug_damage) ==
    LET hit == take_damage(g.current_bug, player_damage)
        bug == hit.entity
        g1  == Say([g EXCEPT !.current_bug = bug], <<"PLAYER_HIT">> \o hit.out)
    IN  IF ~is_alive(bug)
        THEN LET g2 == [g1 EXCEPT
                           !.current_bug = None,
                           !.player.health =
                               Min(g1.player.max_health, g1.player.health + 5)]
             IN  look(Say(g2, <<"SUCCESS">>))
        ELSE LET back == take_damage(g1.player, bug_damage)
                 g2   == Say([g1 EXCEPT !.player = back.entity],
                             <<"BUG_HIT">> \o back.out)
             IN  IF ~is_alive(g2.player)
                 THEN Say([g2 EXCEPT !.is_running = FALSE], <<"GAME_OVER">>)
                 ELSE g2

\* Game._attack after its target check: bug and player exchange blows.
\* player_damage and bug_damage are the two randint draws.
exchange(g, player_damage, bug_damage) ==
    LET hit == take_damage(g.current_bug, player_damage)
        bug == hit.entity
        g1  == Say([g EXCEPT !.current_bug = bug], <<"PLAYER_HIT">> \o hit.out)
    IN  IF ~is_alive(bug)
        THEN LET loc == g1.player.current_location
                 g2  == [g1 EXCEPT
                           !.map_state[loc].content = None,
                           !.current_bug = None,
                           !.player.health =
                               Min(g1.player.max_health, g1.player.health + 5)]
             IN  look(Say(g2, <<"SUCCESS">>))
        ELSE LET back == take_damage(g1.player, bug_damage)
                 g2   == Say([g1 EXCEPT !.player = back.entity],
                             <<"BUG_HIT">> \o back.out)
             IN  IF ~is_alive(g2.player)
                 THEN Say([g2 EXCEPT !.is_running = FALSE], <<"GAME_OVER">>)
                 ELSE g2

\* _collect leaving the feature in the room
collect_keeps_feature(g) ==
    LET loc     == g.player.current_location
        content == g.map_state[loc].content
    IN  IF Truthy(content) /\ StartsWith(content, FeaturePrefix)
        THEN LET feature_name == Split(content, ColonSpace)[2]
                 g1 == Say([g EXCEPT !.player = add_feature(@, feature_name)],
                           <<"FEATURE_COLLECTED">>)
             IN  IF g1.player.features_collected >= total_features_to_win
                 THEN Say([g1 EXCEPT !.is_running = FALSE], <<"SHIPPED">>)
                 ELSE look(g1)
        ELSE Say(g, <<"NOTHING_TO_COLLECT">>)

\* Game._collect
collect(g) ==
    LET loc     == g.player.current_location
        content == g.map_state[loc].content
    IN  IF Truthy(content) /\ StartsWith(content, FeaturePrefix)
        THEN LET feature_name == Split(content, ColonSpace)[2]
                 g1 == Say([g EXCEPT !.player = add_feature(@, feature_name),
                                     !.map_state[loc].content = None],
                           <<"FEATURE_COLLECTED">>)
             IN  IF g1.player.features_collected >= total_features_to_win
                 THEN Say([g1 EXCEPT !.is_running = FALSE], <<"SHIPPED">>)
                 ELSE look(g1)
        ELSE Say(g, <<"NOTHING_TO_COLLECT">>)

-----------------------------------------------------------------------------
(* Game.__init__ *)

\* list.pop(0) on a non-empty list
Pop0(lst) == [item |-> Head(lst), rest |-> Tail(lst)]

\* self.map_state = list(self.MAP): a new list of the template's own dicts
copy_map_shared(tmpl) == [rooms |-> tmpl, shared |-> TRUE]

\* [d.copy() for d in self.MAP]: the rooms of the working copy, and whether
\* its dicts are the very dict objects of the template (a write to a shared
\* dict shows in both lists)
copy_map(tmpl) == [rooms |-> tmpl, shared |-> FALSE]

\* the template after the working copy has become ms
seen_through(tmpl, ms) == IF copy_map(tmpl).shared THEN ms ELSE tmpl

\* the game a construction yields when the pool holds two names:
\* __init__, _authenticate_user, _look
NewGame(tmpl, pool) ==
    LET p1 == Pop0(pool)
        p2 == Pop0(p1.rest)
        ms == [copy_map(tmpl).rooms EXCEPT ![2].content = FormatFeature(p1.item),
                                           ![4].content = FormatFeature(p2.item)]
        g  == [player |-> NewPlayer, current_bug |-> None, map_state |-> ms,
               is_running |-> TRUE, out |-> <<"BANNER", "AUTH_TOKEN", "STATUS">>]
    IN  [game |-> look(g), pool |-> p2.rest, template |-> seen_through(tmpl, ms)]

\* a construction with fewer than two names in the pool: pop(0) raises
\* IndexError on line 88 or, after line 88 has written room 2, on line 89
FailedGame(tmpl, pool) ==
    IF pool = <<>>
    THEN [pool |-> pool, template |-> tmpl]
    ELSE LET p1 == Pop0(pool)
             ms == [copy_map(tmpl).rooms EXCEPT ![2].content = FormatFeature(p1.item)]
         IN  [pool |-> p1.rest, template |-> seen_through(tmpl, ms)]

-----------------------------------------------------------------------------
(* Game.run: one action per branch of the dispatcher *)

\* the lines the player may type, as the words between whitespace
Lines ==
    { <<>>, <<"quit">>, <<"help">>, <<"look">>, <<"status">>,
      <<"move">>, <<"move", "N">>, <<"move", "e">>, <<"move", "s">>,
      <<"move", "w">>, <<"attack">>, <<"collect">>, <<"dance">> }

\* str.lower on one word
Lower(t) ==
    CASE t = "N" -> "n" [] OTHER -> t

\* strip().lower().split(), then command = parts[0], argument = parts[1] or ""
Parse(line) ==
    LET parts == [i \in 1..Len(line) |-> Lower(line[i])]
    IN  [command |-> parts[1],
         argument |-> IF Len(parts) > 1 THEN parts[2] ELSE ""]

\* store the game a handler returned
Store(g, c) ==
    /\ player' = g.player
    /\ current_bug' = g.current_bug
    /\ map_state' = g.map_state
    /\ is_running' = g.is_running
    /\ out' = g.out
    /\ cmd' = c
    /\ template' = seen_through(template, g.map_state)
    /\ UNCHANGED FEATURE_POOL

Init ==
    LET n == NewGame(MAP, FEATURE_POOL_0)
    IN  /\ player = n.game.player
        /\ current_bug = n.game.current_bug
        /\ map_state = n.game.map_state
        /\ is_running = n.game.is_running
        /\ out = n.game.out
        /\ FEATURE_POOL = n.pool
        /\ template = n.template
        /\ cmd = [command |-> "", argument |-> ""]

\* "if not command_input: continue"
EmptyInput ==
    /\ is_running
    /\ \E line \in Lines :
        /\ line = <<>>
        /\ Store(Game, [command |-> "", argument |-> ""])

Quit ==
    /\ is_running
    /\ \E line \in Lines \ {<<>>} :
        /\ Parse(line).command = "quit"
        /\ Store(Say([Game EXCEPT !.is_running = FALSE], <<"EXITING">>), Parse(line))

Help ==
    /\ is_running
    /\ \E line \in Lines \ {<<>>} :
        /\ Parse(line).command = "help"
        /\ Store(Say(Game, <<"HELP">>), Parse(line))

Look ==
    /\ is_running
    /\ \E line \in Lines \ {<<>>} :
        /\ Parse(line).command = "look"
        /\ Store(look(Game), Parse(line))

Status ==
    /\ is_running
    /\ \E line \in Lines \ {<<>>} :
        /\ Parse(line).command = "status"
        /\ Store(Say(Game, <<"STATUS">>), Parse(line))

Move ==
    /\ is_running
    /\ \E line \in Lines \ {<<>>} :
        /\ Parse(line).command = "move"
        /\ Store(move(Game, Parse(line).argument), Parse(line))

\* the retaliation roll drawn from the player's range of +-5
retaliation_rolls_wide(g, player_damage) ==
    IF is_alive(take_damage(g.current_bug, player_damage).entity)
    THEN randint(g.current_bug.attack - 5, g.current_bug.attack + 5)
    ELSE {0}

\* the values the retaliation roll of line 192 can take; the roll is made only
\* when the bug survived the player's strike
retaliation_rolls(g, player_damage) ==
    IF is_alive(take_damage(g.current_bug, player_damage).entity)
    THEN randint(g.current_bug.attack - 3, g.current_bug.attack + 3)
    ELSE {0}

\* Game._attack
Attack ==
    /\ is_running
    /\ \E line \in Lines \ {<<>>} :
        /\ Parse(line).command = "attack"
        /\ LET g0 == IF NoLiveBug(Game) THEN start_combat(Game) ELSE Game
           IN  IF NoLiveBug(g0)
               THEN Store(Say(g0, <<"NO_TARGET">>), Parse(line))
               ELSE \E player_damage \in
                        randint(g0.player.attack - 5, g0.player.attack + 5) :
                      \E bug_damage \in retaliation_rolls(g0, player_damage) :
                        Store(exchange(g0, player_damage, bug_damage), Parse(line))

Collect ==
    /\ is_running
    /\ \E line \in Lines \ {<<>>} :
        /\ Parse(line).command = "collect"
        /\ Store(collect(Game), Parse(line))

Commands == {"quit", "help", "look", "status", "move", "attack", "collect"}

Unknown ==
    /\ is_running
    /\ \E line \in Lines \ {<<>>} :
        /\ Parse(line).command \notin Commands
        /\ Store(Say(Game, <<"UNKNOWN_COMMAND">>), Parse(line))

Next ==
    \/ EmptyInput
    \/ Quit
    \/ Help
    \/ Look
    \/ Status
    \/ Move
    \/ Attack
    \/ Collect
    \/ Unknown

Spec == Init /\ [][Next]_vars

-----------------------------------------------------------------------------
(* A game picked up in mid-play: the player has been hurt before the first  *)
(* command is read.  The handlers' loss branch is exercised from here.      *)

\* the largest health the hurt player starts with
MaxStartHealth == 20

InitHurt ==
    LET n == NewGame(MAP, FEATURE_POOL_0)
    IN  /\ \E h \in 1..MaxStartHealth : player = [n.game.player EXCEPT !.health = h]
        /\ current_bug = n.game.current_bug
        /\ map_state = n.game.map_state
        /\ is_running = n.game.is_running
        /\ out = n.game.out
        /\ FEATURE_POOL = n.pool
        /\ template = n.template
        /\ cmd = [command |-> "", argument |-> ""]

SpecHurt == InitHurt /\ [][Next]_vars

-----------------------------------------------------------------------------
(* Games played one after the other in one process: when run returns, a new *)
(* Game is constructed.  MAP and FEATURE_POOL are class attributes and are  *)
(* what the earlier constructions left.                                     *)

GameCall == [command |-> "Game()", argument |-> ""]

\* Game(): __init__ to its end, or to the IndexError of pop(0), which leaves
\* the earlier game as it was
Construct ==
    /\ ~is_running
    /\ cmd' = GameCall
    /\ IF Len(FEATURE_POOL) >= 2
       THEN LET n == NewGame(template, FEATURE_POOL)
            IN  /\ player' = n.game.player
                /\ current_bug' = n.game.current_bug
                /\ map_state' = n.game.map_state
                /\ is_running' = n.game.is_running
                /\ out' = n.game.out
                /\ FEATURE_POOL' = n.pool
                /\ template' = n.template
       ELSE LET n == FailedGame(template, FEATURE_POOL)
            IN  /\ FEATURE_POOL' = n.pool
                /\ template' = n.template
                /\ out' = <<"IndexError">>
                /\ UNCHANGED <<player, current_bug, map_state, is_running>>

NextGames ==
    \/ Next
    \/ Construct

SpecGames == Init /\ [][NextGames]_vars

-----------------------------------------------------------------------------
(* Vocabulary of the properties *)

\* everything the game holds, without the record of the last command
GameVars == <<player, current_bug, map_state, is_running, FEATURE_POOL, template>>

Said(o, tag) == \E i \in DOMAIN o : o[i] = tag

\* the content of the room the player stands in
HereContent == map_state[player.current_location].content

IsBugMarker(c) == c # None /\ \E i \in DOMAIN c.str : c.str[i] = "Bug"

IsFeatureMarker(c) ==
    c # None /\ Len(c.str) >= 2 /\ c.str[1] = "Feature" /\ c.str[2] = ":"

BugAlive == current_bug # None /\ current_bug.health > 0

\* take_damage reported the bug's health at or below 0 after the player's strike
BugStruckDown(o) ==
    \E i \in DOMAIN o :
        /\ i + 2 \in DOMAIN o
        /\ o[i] = "PLAYER_HIT" /\ o[i + 1] = "TAKES_DAMAGE" /\ o[i + 2] = "ELIMINATED"

\* the other rooms keep name, exits and content
OtherRoomsUnchanged ==
    \A r \in 0..4 : r # player.current_location => map_state'[r] = map_state[r]

-----------------------------------------------------------------------------
\* C1: in every state reachable from a fresh game the player's stored health
\* lies between 0 and max_health.
C1_HealthInRange == 0 <= player.health /\ player.health <= player.max_health

\* the heal of collect was cut off at the new maximum after a fight
C1_Witness ==
    /\ cmd.command = "collect"
    /\ map_state[1].content = None
    /\ player.max_health = 105
    /\ player.health = 105

\* C2: while a bug is alive a move command, whatever its argument, changes
\* nothing in the game and prints only the blocked message (no room is
\* rendered).
C2_MoveBlocked ==
    [][(BugAlive /\ cmd'.command = "move")
        => (UNCHANGED GameVars /\ out' = <<"BLOCKED">>)]_vars

\* a move through a real exit of the bug's room was refused
C2_Witness ==
    /\ cmd = [command |-> "move", argument |-> "s"]
    /\ out = <<"BLOCKED">>
    /\ BugAlive
    /\ "S" \in DOMAIN map_state[player.current_location].exits

-----------------------------------------------------------------------------
RECURSIVE ReachFrom(_, _)
\* the rooms that can be walked to from the rooms in seen, through exits
ReachFrom(ms, seen) ==
    LET more == seen \cup {ms[r].exits[d] : <<r, d>> \in
                              UNION {{<<r, d>> : d \in DOMAIN ms[r].exits} : r \in seen}}
    IN  IF more = seen THEN seen ELSE ReachFrom(ms, more)

FeaturesOnMap == Cardinality({r \in 0..4 : IsFeatureMarker(map_state[r].content)})

FeaturesInReach ==
    Cardinality({r \in ReachFrom(map_state, {player.current_location}) :
                    IsFeatureMarker(map_state[r].content)})

\* collect has cleared the running flag with the success summary
Shipped == ~is_running /\ Said(out, "SHIPPED")

\* C3: the win is reachable: the features the player holds together with the
\* features in rooms the player can still walk to meet the win threshold
\* (a fresh game that can be won satisfies this in its first state).
C3_WinReachable ==
    is_running =>
        player.features_collected + FeaturesInReach >= total_features_to_win

\* what the code does instead: no reachable state has the success outcome
C3_NeverShipped == ~Shipped

\* C4: the win threshold equals the number of features placed on the map at
\* game start: collected features plus features left on the map make 5.
C4_ThresholdIsMapTotal ==
    player.features_collected + FeaturesOnMap = total_features_to_win

-----------------------------------------------------------------------------
\* C5: when the retaliation of an attack command leaves the player's health
\* at or below 0 the running flag is cleared in that command, and once the
\* flag is cleared no command changes anything.
C5_LossStopsGame ==
    [][ /\ (cmd'.command = "attack" /\ Said(out', "BUG_HIT") /\ player'.health <= 0)
            => ~is_running'
        /\ ~is_running => UNCHANGED vars ]_vars

\* the bug's blow brought the player down
C5_Witness ==
    /\ cmd.command = "attack"
    /\ Said(out, "BUG_HIT")
    /\ player.health <= 0
    /\ ~is_running

\* C6: the running flag goes from true to false only in a quit command, a
\* collect that meets the win condition or an attack whose retaliation kills
\* the player; every quit command clears it; it never becomes true again.
C6_OnlyThreeWaysOut ==
    [][ /\ (is_running /\ ~is_running') =>
              \/ cmd'.command = "quit"
              \/ /\ cmd'.command = "collect"
                 /\ IsFeatureMarker(HereContent)
                 /\ player'.features_collected >= 5
              \/ /\ cmd'.command = "attack"
                 /\ Said(out', "BUG_HIT")
                 /\ player.health > 0
                 /\ player'.health <= 0
        /\ (is_running /\ cmd'.command = "quit") => ~is_running'
        /\ ~is_running => ~is_running' ]_vars

\* a quit command ended a game in which a bug was still alive
C6_Witness ==
    /\ cmd.command = "quit"
    /\ ~is_running
    /\ BugAlive

-----------------------------------------------------------------------------
\* C7: an attack whose strike brings the bug's health to 0 or below empties
\* the room, drops the bug, heals the player by 5 up to max_health, is not
\* answered by the bug, and the next move through an exit of the room
\* succeeds.
C7_KillClearsRoom ==
    [][ /\ (cmd'.command = "attack" /\ BugStruckDown(out')) =>
              /\ map_state'[player.current_location].content = None
              /\ OtherRoomsUnchanged
              /\ current_bug' = None
              /\ player' = [player EXCEPT
                              !.health = Min(player.max_health, player.health + 5)]
              /\ ~Said(out', "BUG_HIT")
              /\ is_running'
        /\ ( /\ cmd.command = "attack" /\ BugStruckDown(out)
             /\ cmd'.command = "move"
             /\ Upper(cmd'.argument) \in DOMAIN map_state[player.current_location].exits )
             => /\ player'.current_location =
                      map_state[player.current_location].exits[Upper(cmd'.argument)]
                /\ Said(out', "LOCATION") ]_vars

\* the bug of the Frontend Component has just been squashed by a hurt player
C7_Witness ==
    /\ cmd.command = "attack"
    /\ BugStruckDown(out)
    /\ player.current_location = 1
    /\ HereContent = None
    /\ current_bug = None
    /\ player.health < player.max_health

\* C8: collect succeeds exactly when the room's content is a feature marker;
\* then the feature's name goes to the end of the inventory,
\* features_collected grows by 1, max_health by 5, health becomes
\* min(new max_health, health + 10), the room is emptied, and location,
\* attack power, the active bug and the other rooms stay as they are.
\* Otherwise collect changes nothing.
C8_CollectEffect ==
    [][ (is_running /\ cmd'.command = "collect") =>
          IF IsFeatureMarker(HereContent)
          THEN /\ player' = [player EXCEPT
                     !.inventory = Append(@, Str(SubSeq(HereContent.str, 4,
                                                        Len(HereContent.str)))),
                     !.features_collected = @ + 1,
                     !.max_health = @ + 5,
                     !.health = Min(player.max_health + 5, player.health + 10)]
               /\ map_state'[player.current_location].content = None
               /\ OtherRoomsUnchanged
               /\ current_bug' = current_bug
               /\ Said(out', "FEATURE_COLLECTED")
          ELSE /\ UNCHANGED GameVars
               /\ out' = <<"NOTHING_TO_COLLECT">> ]_vars

\* a hurt player collected the feature of the Backend Service
C8_Witness ==
    /\ cmd.command = "collect"
    /\ player.inventory = <<Str(<<"User Profiles">>)>>
    /\ player.features_collected = 1
    /\ player.health < player.max_health
    /\ map_state[2].content = None

\* C9: features_collected equals the length of the inventory.
C9_CountIsInventorySize == player.features_collected = Len(player.inventory)

\* a feature has been collected
C9_Witness == Len(player.inventory) = 1 /\ player.current_location = 2

-----------------------------------------------------------------------------
\* C10: an unknown command, a move in a direction that is no exit while no
\* bug is alive, an attack in a room without a bug marker and a collect in a
\* room without a feature marker leave the whole game as it was, running
\* flag included.
C10_InputErrorsChangeNothing ==
    [][ ( /\ is_running
          /\ \/ cmd'.command \notin (Commands \cup {""})
             \/ /\ cmd'.command = "move"
                /\ ~BugAlive
                /\ Upper(cmd'.argument) \notin
                       DOMAIN map_state[player.current_location].exits
             \/ cmd'.command = "attack" /\ ~IsBugMarker(HereContent)
             \/ cmd'.command = "collect" /\ ~IsFeatureMarker(HereContent) )
        => (UNCHANGED GameVars /\ is_running') ]_vars

\* an attack was tried in a room that holds a feature
C10_Witness ==
    /\ cmd.command = "attack"
    /\ out = <<"NO_BUG_HERE", "NO_TARGET">>
    /\ IsFeatureMarker(HereContent)

-----------------------------------------------------------------------------
\* C11: a look command changes nothing, except that it creates a bug when
\* the room holds the bug marker and no bug is alive: in a room without
\* content it changes nothing and leaves the game without a bug, and with a
\* live bug it neither replaces the bug nor changes its health.
C11_LookOnlySpawns ==
    [][ (is_running /\ cmd'.command = "look") =>
          /\ UNCHANGED <<player, map_state, is_running, FEATURE_POOL, template>>
          /\ (IsBugMarker(HereContent) /\ ~BugAlive)
                => (current_bug' # None /\ current_bug'.health > 0)
          /\ ~(IsBugMarker(HereContent) /\ ~BugAlive) => current_bug' = current_bug
          /\ HereContent = None => (current_bug' = None /\ ~Said(out', "BUG_ALERT"))
      ]_vars

\* the player looked at a room whose bug had already been hit
C11_Witness ==
    /\ cmd.command = "look"
    /\ BugAlive
    /\ current_bug.health < current_bug.max_health
    /\ Said(out, "WARNING_BUG")

\* the first game's working state right after construction
FirstGame == NewGame(MAP, FEATURE_POOL_0).game

\* C12: every construction of a game succeeds and yields the initial working
\* state of the first game, room contents and feature names included.
C12_StartsClean ==
    cmd = GameCall =>
        /\ ~Said(out, "IndexError")
        /\ player = FirstGame.player
        /\ current_bug = FirstGame.current_bug
        /\ map_state = FirstGame.map_state
        /\ is_running = FirstGame.is_running

\* C13: the template keeps the names, exits and initial content of its five
\* rooms through every construction and command; in the working copy only
\* the content of a room changes.
C13_TemplateUntouched ==
    /\ template = MAP
    /\ \A r \in 0..4 :
        /\ map_state[r].name = MAP[r].name
        /\ map_state[r].exits = MAP[r].exits

\* a second game in which a bug was squashed and a feature collected
C13_Witness ==
    /\ Len(FEATURE_POOL) = 1
    /\ map_state[1].content = None
    /\ map_state[2].content = None
    /\ map_state[2].content # MAP[2].content

-----------------------------------------------------------------------------
\* the commands that are neither collect nor attack
PassiveCommand(c) == c.command \notin {"", "Game()", "collect", "attack"}

\* C14 as stated: look, status, help, move, quit and unknown commands leave
\* every field of the Player unchanged.
C14_OnlyCollectAndAttackWrite ==
    [][(is_running /\ PassiveCommand(cmd')) => player' = player]_vars

\* C14 as amended: look, status, help, quit and unknown commands leave every
\* field of the Player unchanged, and move leaves every field but
\* current_location unchanged.
C14_PassiveCommandsKeepPlayer ==
    [][(is_running /\ PassiveCommand(cmd')) =>
          IF cmd'.command = "move"
          THEN player' = [player EXCEPT !.current_location = player'.current_location]
          ELSE player' = player]_vars

\* a hurt player has just walked into the Database Schema
C14_Witness ==
    /\ cmd.command = "move"
    /\ Said(out, "LOCATION")
    /\ player.current_location = 3
    /\ player.health < player.max_health

\* C15: every exit of every room of the working map leads to a room index in
\* 0..4, and the player's current_location is an index in 0..4.
C15_IndicesValid ==
    /\ \A r \in 0..4 : \A d \in DOMAIN map_state[r].exits :
          map_state[r].exits[d] \in 0..4
    /\ player.current_location \in 0..4

\* the player stands in the room with the highest index that has an entrance
C15_Witness == cmd.command = "move" /\ player.current_location = 3

-----------------------------------------------------------------------------
\* the bug the difficulty formula gives for a Player
FormulaBug(p) ==
    LET level == 1 + (p.features_collected \div 2) + (p.current_location \div 2)
    IN  [level |-> level, health |-> 20 + 10 * level,
         max_health |-> 20 + 10 * level, attack |-> 5 + 5 * level]

\* the game as it would be with no bug instantiated
Bugless == [Game EXCEPT !.current_bug = None]

\* C16: a bug created on entering or looking at a room has level
\* 1 + floor(features_collected/2) + floor(current_location/2) of the state
\* at creation, level at least 1, health = max_health = 20 + 10*level and
\* attack = 5 + 5*level; in a bug room the look site and the attack site
\* create that same bug.
C16_BugBySiteAndFormula ==
    [][ /\ (cmd'.command \in {"move", "look"} /\ Said(out', "BUG_ALERT")) =>
              /\ current_bug' = FormulaBug(player')
              /\ current_bug'.level >= 1
        /\ IsBugMarker(HereContent) =>
              /\ look(Bugless).current_bug = FormulaBug(player)
              /\ start_combat(Bugless).current_bug = FormulaBug(player)
      ]_vars

\* a level 2 bug appeared when the player walked into the Database Schema
C16_Witness ==
    /\ cmd.command = "move"
    /\ Said(out, "BUG_ALERT")
    /\ player.current_location = 3
    /\ current_bug # None
    /\ current_bug.level = 2

\* C17: in an attack on a live bug the strike takes an integer in
\* [A-5, A+5] off the bug; a bug that survives takes an integer in
\* [B-3, B+3] off the player; a bug that does not survive does not hit back,
\* so no attack both kills the bug and damages the player.
C17_RollBounds ==
    [][ (is_running /\ cmd'.command = "attack" /\ BugAlive) =>
          IF current_bug' # None
          THEN /\ (current_bug.health - current_bug'.health) \in
                      (player.attack - 5)..(player.attack + 5)
               /\ current_bug'.health > 0
               /\ (player.health - player'.health) \in
                      (current_bug.attack - 3)..(current_bug.attack + 3)
          ELSE /\ current_bug.health <= player.attack + 5
               /\ player'.health >= player.health
               /\ ~Said(out', "BUG_HIT") ]_vars

\* the strongest strike was answered by the strongest blow of a level 1 bug
C17_Witness ==
    /\ cmd.command = "attack"
    /\ BugAlive
    /\ current_bug.max_health - current_bug.health = 20
    /\ player.health = 100 - 13

-----------------------------------------------------------------------------
NoDuplicates(seq) == \A i, j \in DOMAIN seq : seq[i] = seq[j] => i = j

\* C18: the content of a room changes only from a marker to none; a bug is
\* created only where the marker stands and no bug exists, and it goes only
\* when its room is emptied, so a bug room spawns one bug at most; no
\* feature is collected twice.
C18_ContentOnlyCleared ==
    [][ /\ \A r \in 0..4 :
              map_state'[r].content # map_state[r].content =>
                  (map_state[r].content # None /\ map_state'[r].content = None)
        /\ Said(out', "BUG_ALERT") =>
              /\ current_bug = None
              /\ IsBugMarker(map_state'[player'.current_location].content)
        /\ (current_bug # None /\ current_bug' # current_bug) =>
              IF current_bug' = None
              THEN /\ IsBugMarker(HereContent)
                   /\ map_state'[player.current_location].content = None
              ELSE current_bug' = [current_bug EXCEPT !.health = current_bug'.health]
        /\ NoDuplicates(player'.inventory) ]_vars

\* both bugs are squashed and the feature in reach is collected
C18_Witness ==
    /\ map_state[1].content = None
    /\ map_state[2].content = None
    /\ map_state[3].content = None
    /\ Len(player.inventory) = 1

\* C19: between commands a bug is referenced iff it is alive iff the
\* player's room holds the bug marker, and the attack handler never creates
\* a bug.
C19_BugIffMarkerHere ==
    /\ (current_bug # None) <=> BugAlive
    /\ BugAlive <=> IsBugMarker(HereContent)
    /\ ~Said(out, "COMBAT_INITIATED")

\* the second bug is alive after the first has been squashed
C19_Witness ==
    /\ BugAlive
    /\ player.current_location = 3
    /\ map_state[1].content = None
    /\ current_bug.health < current_bug.max_health

\* C20: from a fresh game the player's health stays above 0 and the loss
\* branch of the attack handler never clears the running flag.
C20_PlayerSurvives ==
    /\ player.health > 0
    /\ ~Said(out, "GAME_OVER")
    /\ ~is_running => cmd.command = "quit"

\* the player after the worst rolls against both bugs
C20_Witness ==
    /\ cmd.command = "attack"
    /\ Said(out, "BUG_HIT")
    /\ player.health <= 25

====
